---- MODULE Spec2Model ----
(***************************************************************************)
(* portdetective: one invocation of the CLI (inspect, list or kill) run   *)
(* against a host whose process table changes underneath it.               *)
(*                                                                         *)
(* Every OS call of the program (socket enumeration, a process-table       *)
(* lookup, the read of the confirmation answer, the kill system call) is   *)
(* one step; between two steps the host may let processes exit and may     *)
(* hand a freed PID to a new process.                                      *)
(***************************************************************************)
EXTENDS Naturals, Integers, Sequences, FiniteSets, TLC

\* ---------------------------------------------------------------- bounds
MaxSockets == 2   \* entries in the OS socket table
MaxPid     == 2   \* PIDs of the host: 1..MaxPid
MaxPort    == 2   \* port numbers: 1..MaxPort
MaxReuse   == 1   \* times the host hands a freed PID to a new process
MaxOwners  == 2   \* PIDs the OS associates with one socket entry

Pids  == 1..MaxPid
Ports == 1..MaxPort

\* ----------------------------------------------------------- data model
\* model.rs Protocol, cli.rs ProtocolFilter, model.rs PortStatus
Protocol       == {"Tcp", "Udp", "Both"}
ProtocolFilter == {"TcpOnly", "UdpOnly", "Both"}
PortStatus     == {"Free", "InUse"}

\* Option<T>
None == [tag |-> "None"]
Some(v) == [tag |-> "Some", val |-> v]

\* error.rs PortDetectiveError: the variants the program constructs
NetworkError(cause)    == [tag |-> "NetworkError", cause |-> cause]
ProcessNotFound(pid)   == [tag |-> "ProcessNotFound", pid |-> pid]
PermissionDenied(msg)  == [tag |-> "PermissionDenied", msg |-> msg]
KillFailed(pid, why)   == [tag |-> "KillFailed", pid |-> pid, reason |-> why]
Cancelled              == [tag |-> "Cancelled"]

\* Result<ExitCode>: Ok(code) | Err(e); a panic unwinds out of main
Ok(code) == [tag |-> "Ok", code |-> code]
OkVal(v) == [tag |-> "Ok", val |-> v]
Err(e)   == [tag |-> "Err", err |-> e]
Panic    == [tag |-> "Panic"]

\* model.rs PortReport::free / PortReport::in_use
PortReport_free(port, protocol) ==
    [port |-> port, protocol |-> protocol, status |-> "Free", processes |-> <<>>]

PortReport_in_use(port, protocol, procs) ==
    [port |-> port, protocol |-> protocol, status |-> "InUse", processes |-> procs]

\* ------------------------------------------------------------- the host
\* What the OS can answer get_sockets_info with: one SocketInfo per socket.
\* TCP entries carry a connection state, UDP entries carry none.
TcpStates == {"Listen", "Established"}

PidLists == {<<>>} \cup { <<q>> : q \in Pids }

SocketInfos(flags) ==
    { e \in [proto : {"Tcp"}, state : TcpStates, local_port : Ports,
             associated_pids : PidLists] : "Tcp" \in flags }
    \cup
    { e \in [proto : {"Udp"}, state : {"None"}, local_port : Ports,
             associated_pids : PidLists] : "Udp" \in flags }

RECURSIVE SeqsUpTo(_, _)
SeqsUpTo(S, n) ==
    IF n = 0 THEN {<<>>}
    ELSE LET shorter == SeqsUpTo(S, n - 1)
         IN  shorter \cup { Append(s, e) : s \in { t \in shorter : Len(t) = n - 1 }, e \in S }

\* The same entries with all that extract_listening_socket can meet in one:
\* any TCP state, and up to MaxOwners associated PIDs.
OsTcpStates == {"Listen", "Established", "TimeWait", "Closed"}

OwnerLists == SeqsUpTo(Pids, MaxOwners)

OsSocketInfos(flags) ==
    { e \in [proto : {"Tcp"}, state : OsTcpStates, local_port : Ports,
             associated_pids : OwnerLists] : "Tcp" \in flags }
    \cup
    { e \in [proto : {"Udp"}, state : {"None"}, local_port : Ports,
             associated_pids : OwnerLists] : "Udp" \in flags }

\* A process's name and command line, as the process table reports them for
\* the process that holds `pid` in its generation `g`.
ProcName(pid, g) == IF (pid + g) % 2 = 1 THEN "sh" ELSE "nginx"
ProcCmd(pid, g)  == IF (pid + g) % 2 = 1 THEN <<>> ELSE <<"nginx", "-g">>
ProcUser(pid, g) == IF pid = 1 THEN "root" ELSE "unknown"

\* The parent the process table links the process to: none for PID 1, the
\* next lower PID for the others.
ProcParent(pid, g) == IF pid = 1 THEN None ELSE Some(pid - 1)

\* The errors get_sockets_info can fail with, and the answers a user can type.
EnumErrors == {"Permission denied (os error 13)", "Input/output error (os error 5)"}

Whitespace == {" ", "\n", "\t", "\r"}

Answers ==
    { <<>>, <<"\n">>, <<"y", "\n">>, <<" ", "Y", "\r", "\n">>,
      <<"n", "\n">>, <<"y", "e", "s", "\n">> }

\* ------------------------------------------------------------- requests
\* cli.rs Cli / Commands, as main dispatches them
Requests ==
    { [mode |-> "inspect", port |-> p, filter |-> f, json |-> j,
       force |-> FALSE, no_prompt |-> FALSE] :
        p \in Ports, f \in ProtocolFilter, j \in BOOLEAN }
    \cup
    { [mode |-> "list", port |-> 0, filter |-> f, json |-> j,
       force |-> FALSE, no_prompt |-> FALSE] :
        f \in ProtocolFilter, j \in BOOLEAN }
    \cup
    { [mode |-> "kill", port |-> p, filter |-> f, json |-> j,
       force |-> fo, no_prompt |-> np] :
        p \in Ports, f \in ProtocolFilter, j \in BOOLEAN,
        fo \in BOOLEAN, np \in BOOLEAN }

\* ------------------------------------------------------------------ net.rs
\* get_listening_sockets: ProtocolFlags asked of the OS for a filter
proto_flags(filter) ==
    CASE filter = "TcpOnly" -> {"Tcp"}
      [] filter = "UdpOnly" -> {"Udp"}
      [] filter = "Both"    -> {"Tcp", "Udp"}

\* What get_sockets_info can return for these flags: an error, or a table of
\* at most MaxSockets entries of the protocols asked for.
TablesTcp  == SeqsUpTo(SocketInfos({"Tcp"}), MaxSockets)
TablesUdp  == SeqsUpTo(SocketInfos({"Udp"}), MaxSockets)
TablesBoth == SeqsUpTo(SocketInfos({"Tcp", "Udp"}), MaxSockets)

OsTables(flags) ==
    IF flags = {"Tcp"} THEN TablesTcp
    ELSE IF flags = {"Udp"} THEN TablesUdp
    ELSE TablesBoth

OsAnswers(flags) ==
    { [ok |-> FALSE, cause |-> c, table |-> <<>>] : c \in EnumErrors }
    \cup
    { [ok |-> TRUE, cause |-> "", table |-> t] : t \in OsTables(flags) }

\* Mutant of extract_listening_socket: the TCP state is not looked at
extract_listening_socket_NoStateTest(socket) ==
    LET pids == socket.associated_pids
    IN  IF pids = <<>> THEN None
        ELSE [pid |-> pids[1], port |-> socket.local_port,
              protocol |-> socket.proto]

\* extract_listening_socket: Some(BoundSocket) or None. local_addr is
\* informational and is left out.
extract_listening_socket(socket) ==
    LET pids == socket.associated_pids
    IN  IF pids = <<>> THEN None
        ELSE IF socket.proto = "Tcp"
             THEN IF socket.state # "Listen" THEN None
                  ELSE [pid |-> pids[1], port |-> socket.local_port,
                        protocol |-> "Tcp"]
             ELSE [pid |-> pids[1], port |-> socket.local_port,
                   protocol |-> "Udp"]

RECURSIVE ExtractAll(_)
ExtractAll(table) ==
    IF table = <<>> THEN <<>>
    ELSE LET rest  == ExtractAll(SubSeq(table, 1, Len(table) - 1))
             bound == extract_listening_socket(table[Len(table)])
         IN  IF bound = None THEN rest ELSE Append(rest, bound)

\* Mutant of get_listening_sockets: a failed OS query counts as no sockets
get_listening_sockets_NoError(os) ==
    IF ~os.ok THEN OkVal(<<>>)
    ELSE OkVal(ExtractAll(os.table))

\* get_listening_sockets: Err(NetworkError) when the OS query fails, else the
\* extracted sockets in the OS's order
get_listening_sockets(os) ==
    IF ~os.ok THEN Err(NetworkError(os.cause))
    ELSE OkVal(ExtractAll(os.table))

\* What one enumeration can come to: the OS's answer (ok, cause) with what
\* get_listening_sockets returns for it (got). Many tables give the same
\* sockets; each outcome is kept once.
OutcomesTcp ==
    { [ok |-> os.ok, cause |-> os.cause, got |-> get_listening_sockets(os)] :
        os \in OsAnswers({"Tcp"}) }

OutcomesUdp ==
    { [ok |-> os.ok, cause |-> os.cause, got |-> get_listening_sockets(os)] :
        os \in OsAnswers({"Udp"}) }

OutcomesBoth ==
    { [ok |-> os.ok, cause |-> os.cause, got |-> get_listening_sockets(os)] :
        os \in OsAnswers({"Tcp", "Udp"}) }

EnumOutcomes(flags) ==
    IF flags = {"Tcp"} THEN OutcomesTcp
    ELSE IF flags = {"Udp"} THEN OutcomesUdp
    ELSE OutcomesBoth

\* find_processes_by_port, on what its call of get_listening_sockets returned
find_processes_by_port(port, r) ==
    IF r.tag = "Err" THEN r
    ELSE OkVal(SelectSeq(r.val, LAMBDA s : s.port = port))

\* get_listening_ports, on what its call of get_listening_sockets returned:
\* the sockets grouped by port, each group in the order
\* of discovery. disc is not a field of the program: it records each
\* socket's place in get_listening_sockets' answer, the order of discovery.
get_listening_ports(r) ==
    IF r.tag = "Err" THEN r
    ELSE LET found == [k \in 1..Len(r.val) |->
                         [pid |-> r.val[k].pid, port |-> r.val[k].port,
                          protocol |-> r.val[k].protocol, disc |-> k]]
         IN  OkVal([p \in { found[k].port : k \in 1..Len(found) } |->
                      SelectSeq(found, LAMBDA s : s.port = p)])

VARIABLES
    request,      \* the parsed command line
    live,         \* host: PIDs present in the process table
    gen,          \* host: gen[pid] counts the processes that have held pid
    pc,           \* where the invocation stands
    sockets,      \* run_inspect / run_kill: sockets; run_list: the iteration
    i,            \* index of the next socket the loop visits
    processes,    \* run_inspect: processes
    seen_pids,    \* run_inspect: seen_pids
    entries,      \* run_list: entries
    seen,         \* run_list: seen
    info,         \* run_kill: info
    answer,       \* run_kill: the line read from stdin
    report,       \* the PortReport printed, with its format
    listing,      \* the listing printed
    result,       \* what main matches on
    enum,         \* log: what the OS answered the socket enumeration
    visits,       \* log: every socket the program reached, in order
    prompts,      \* log: confirmation prompts shown
    signals,      \* log: every kill(2) call, in order
    out           \* what output.rs printed for people, in order

vars == <<request, live, gen, pc, sockets, i, processes, seen_pids, entries,
          seen, info, answer, report, listing, result, enum, visits,
          prompts, signals, out>>

hostVars == <<live, gen>>
inspectVars == <<processes, seen_pids>>
listVars == <<entries, seen, listing>>
killVars == <<info, answer, prompts, signals>>

Init ==
    /\ request \in Requests
    /\ live = Pids
    /\ gen = [p \in Pids |-> 0]
    /\ pc = "start"
    /\ sockets = <<>>
    /\ i = 1
    /\ processes = <<>>
    /\ seen_pids = {}
    /\ entries = <<>>
    /\ seen = {}
    /\ info = None
    /\ answer = None
    /\ report = None
    /\ listing = None
    /\ result = None
    /\ enum = None
    /\ visits = <<>>
    /\ prompts = 0
    /\ signals = <<>>
    /\ out = <<>>

\* ----------------------------------------------------------------- proc.rs
\* Mutant of get_parent_info: a parent that is gone is not reported at all
get_parent_info_DropsPid(parent_pid) ==
    IF parent_pid = None \/ parent_pid.val \notin live
    THEN [parent_pid |-> None, parent_name |-> None]
    ELSE [parent_pid  |-> Some(parent_pid.val),
          parent_name |-> Some(ProcName(parent_pid.val, gen[parent_pid.val]))]

\* get_parent_info: a second lookup, of the parent alone, for its name
get_parent_info(parent_pid) ==
    IF parent_pid = None
    THEN [parent_pid |-> None, parent_name |-> None]
    ELSE [parent_pid  |-> Some(parent_pid.val),
          parent_name |-> IF parent_pid.val \in live
                          THEN Some(ProcName(parent_pid.val, gen[parent_pid.val]))
                          ELSE None]

\* inspect: a fresh lookup of exactly this PID in the process table, then
\* the lookup of its parent. inst records which process held the PID at the
\* lookup. The two lookups are one step: a parent that exits between them
\* leaves the same record as one that exited just before the first.
inspect(pid, protocol) ==
    IF pid \notin live THEN Err(ProcessNotFound(pid))
    ELSE LET parent == get_parent_info(ProcParent(pid, gen[pid]))
         IN  OkVal([pid         |-> pid,
                    name        |-> ProcName(pid, gen[pid]),
                    user        |-> ProcUser(pid, gen[pid]),
                    command     |-> ProcCmd(pid, gen[pid]),
                    parent_pid  |-> parent.parent_pid,
                    parent_name |-> parent.parent_name,
                    protocol    |-> protocol,
                    inst        |-> gen[pid]])

\* Mutant of SignalFor: the graceful signal whatever `force` says
SignalFor_AlwaysTerm(force) == "SIGTERM"

\* kill_process: the signal chosen for `force`
SignalFor(force) == IF force THEN "SIGKILL" ELSE "SIGTERM"

\* kill_process: `pid as i32` on a u32 given by its 16-bit halves, the value
\* being hi * 2^16 + lo: the same 32 bits read in two's complement, which is
\* the value less 2^32 once the top bit is set
CastI32(hi, lo) ==
    IF hi >= 32768 THEN (hi - 65536) * 65536 + lo ELSE hi * 65536 + lo

\* kill_process: `pid as i32` for a PID of the modelled host
AsI32(pid) == CastI32(pid \div 65536, pid % 65536)

\* kill(2): whom a target denotes
KillScope(target) ==
    IF target > 0 THEN "process"
    ELSE IF target = 0 THEN "own_process_group"
    ELSE IF target = -1 THEN "every_process"
    ELSE "process_group"

\* kill_process: the map_err closure on the errno of a failed kill(2)
KillError(pid, errno) ==
    IF errno = "EPERM"
    THEN PermissionDenied(<<"Cannot kill PID ", pid,
                            ". Try running with elevated permissions.">>)
    ELSE KillFailed(pid, errno)

\* Mutant of kill_process: "no such process" is taken for a success
kill_process_IgnoresEsrch(pid, force, errno) ==
    IF errno \in {"OK", "ESRCH"} THEN OkVal(<<>>) ELSE Err(KillError(pid, errno))

\* kill_process: Ok(()) when kill(2) answers "OK", else the mapped error
kill_process(pid, force, errno) ==
    IF errno = "OK" THEN OkVal(<<>>) ELSE Err(KillError(pid, errno))

\* What kill(2) answers for a single positive target: ESRCH when no process
\* holds the PID, else success or, for a process of another user, EPERM.
KillOutcomes(target) ==
    IF target \in live THEN {"OK", "EPERM"} ELSE {"ESRCH"}

\* ----------------------------------------------------------------- main.rs
\* run_inspect / run_kill: the report's protocol for a filter
ProtocolOf(filter) ==
    CASE filter = "TcpOnly" -> "Tcp"
      [] filter = "UdpOnly" -> "Udp"
      [] filter = "Both"    -> "Both"

\* Mutant of ExitStatus: Cancelled falls into the catch-all arm
ExitStatus_CancelledAsOther(res) ==
    CASE res.tag = "Ok"    -> res.code
      [] res.tag = "Panic" -> 101
      [] res.tag = "Err"   ->
            CASE res.err.tag = "PortFree"         -> 0
              [] res.err.tag = "PermissionDenied" -> 2
              [] res.err.tag = "ProcessNotFound"  -> 3
              [] OTHER                            -> 1

\* main: the exit status for what the command returned
ExitStatus(res) ==
    CASE res.tag = "Ok"    -> res.code
      [] res.tag = "Panic" -> 101
      [] res.tag = "Err"   ->
            CASE res.err.tag = "PortFree"         -> 0
              [] res.err.tag = "PermissionDenied" -> 2
              [] res.err.tag = "ProcessNotFound"  -> 3
              [] res.err.tag = "Cancelled"        -> 4
              [] OTHER                            -> 1

\* A log entry for a socket the program reached: `called` tells whether
\* proc::inspect was called for it, `ok` whether its PID was in the process
\* table at that moment, `parent_live` whether its parent was.
Visit(socket, called) ==
    [pid |-> socket.pid, port |-> socket.port, called |-> called,
     ok |-> socket.pid \in live,
     parent_live |-> /\ ProcParent(socket.pid, gen[socket.pid]) # None
                     /\ ProcParent(socket.pid, gen[socket.pid]).val \in live]

\* Mutant of InspectVisit: the failed resolution is returned (`?`)
InspectVisit_Propagates(procs, seenp, socket, r) ==
    IF r.tag = "Ok"
    THEN [processes |-> Append(procs, r.val),
          seen_pids |-> seenp \cup {socket.pid}, ret |-> None]
    ELSE [processes |-> procs, seen_pids |-> seenp, ret |-> r]

\* Mutant of InspectVisit: the resolved PID is not added to seen_pids
InspectVisit_NoInsert(procs, seenp, socket, r) ==
    IF r.tag = "Ok"
    THEN [processes |-> Append(procs, r.val), seen_pids |-> seenp, ret |-> None]
    ELSE [processes |-> procs, seen_pids |-> seenp, ret |-> None]

\* Mutant of InspectVisit: the PID is added to seen_pids whatever the outcome
InspectVisit_InsertAlways(procs, seenp, socket, r) ==
    IF r.tag = "Ok"
    THEN [processes |-> Append(procs, r.val),
          seen_pids |-> seenp \cup {socket.pid}, ret |-> None]
    ELSE [processes |-> procs, seen_pids |-> seenp \cup {socket.pid}, ret |-> None]

\* run_inspect, loop body after the seen_pids test: what one resolution does
\* to (processes, seen_pids). ret is the early return, None to go on.
InspectVisit(procs, seenp, socket, r) ==
    IF r.tag = "Ok"
    THEN [processes |-> Append(procs, r.val),
          seen_pids |-> seenp \cup {socket.pid}, ret |-> None]
    ELSE [processes |-> procs, seen_pids |-> seenp, ret |-> None]

\* Mutant of InspectReport: the empty test before the in-use report is lost
InspectReport_AlwaysInUse(port, protocol, procs) ==
    [report |-> PortReport_in_use(port, protocol, procs), ret |-> Ok(1)]

\* run_inspect, after the loop: the report and the returned code
InspectReport(port, protocol, procs) ==
    IF procs = <<>>
    THEN [report |-> PortReport_free(port, protocol), ret |-> Ok(0)]
    ELSE [report |-> PortReport_in_use(port, protocol, procs), ret |-> Ok(1)]

\* run_list / print_process_details / print_kill_prompt: the command shown
RECURSIVE Join(_, _)
Join(words, sep) ==
    IF words = <<>> THEN ""
    ELSE IF Len(words) = 1 THEN words[1]
    ELSE words[1] \o sep \o Join(Tail(words), sep)

FlattenCommand(name, command) ==
    IF command = <<>> THEN name ELSE Join(command, " ")

\* Mutant of print_kill_prompt: no fall-back to the name for an empty command
print_kill_prompt_NoFallback(pinfo) ==
    [kind |-> "kill_prompt",
     name |-> pinfo.name,
     pid  |-> pinfo.pid,
     cmd  |-> Join(pinfo.command, " ")]

\* output.rs print_kill_prompt: name, PID and command of the target
print_kill_prompt(pinfo) ==
    [kind |-> "kill_prompt",
     name |-> pinfo.name,
     pid  |-> pinfo.pid,
     cmd  |-> IF Len(pinfo.command) = 0 THEN pinfo.name
              ELSE Join(pinfo.command, " ")]

\* output.rs print_process_details: the lines printed for one process of an
\* in-use report (cwd and start time are not modelled)
print_process_details(pinfo) ==
    [kind   |-> "process_details",
     name   |-> pinfo.name,
     pid    |-> pinfo.pid,
     user   |-> pinfo.user,
     cmd    |-> IF Len(pinfo.command) = 0 THEN pinfo.name
                ELSE Join(pinfo.command, " "),
     parent |-> IF pinfo.parent_pid # None /\ pinfo.parent_name # None
                THEN Some(<<pinfo.parent_name.val, pinfo.parent_pid.val>>)
                ELSE None]

\* output.rs print_report for people: a free port prints one line with the
\* port, a port in use prints the details of each process
print_report(rep) ==
    IF rep.status = "Free" THEN <<>>
    ELSE [k \in 1..Len(rep.processes) |-> print_process_details(rep.processes[k])]

\* run_inspect up to the loop: enumeration, and the empty case
InspectEnumerate ==
    /\ pc = "start"
    /\ request.mode = "inspect"
    /\ \E os \in EnumOutcomes(proto_flags(request.filter)) :
         LET r == find_processes_by_port(request.port, os.got)
         IN  /\ enum' = [ok |-> os.ok, cause |-> os.cause]
             /\ IF r.tag = "Err"
                THEN /\ result' = r
                     /\ pc' = "done"
                     /\ UNCHANGED <<sockets, report>>
                ELSE IF r.val = <<>>
                THEN /\ report' = PortReport_free(request.port, ProtocolOf(request.filter))
                     /\ result' = Ok(0)
                     /\ pc' = "done"
                     /\ UNCHANGED sockets
                ELSE /\ sockets' = r.val
                     /\ pc' = "inspect_loop"
                     /\ UNCHANGED <<report, result>>
    /\ UNCHANGED <<request, hostVars, i, inspectVars, listVars, killVars, visits, out>>

\* run_inspect: one iteration of the loop over sockets; the iteration that
\* visits the last socket goes on to build and print the report
InspectStep ==
    /\ pc = "inspect_loop"
    /\ LET socket == sockets[i]
           skip   == socket.pid \in seen_pids
           r      == inspect(socket.pid, socket.protocol)
           v      == IF skip
                     THEN [processes |-> processes, seen_pids |-> seen_pids, ret |-> None]
                     ELSE InspectVisit(processes, seen_pids, socket, r)
           fin    == InspectReport(request.port, ProtocolOf(request.filter), v.processes)
       IN  /\ visits' = Append(visits, Visit(socket, ~skip))
           /\ processes' = v.processes
           /\ seen_pids' = v.seen_pids
           /\ IF v.ret # None
              THEN /\ result' = v.ret
                   /\ pc' = "done"
                   /\ UNCHANGED <<i, report, out>>
              ELSE IF i < Len(sockets)
              THEN /\ i' = i + 1
                   /\ UNCHANGED <<pc, report, result, out>>
              ELSE /\ report' = fin.report
                   /\ out' = IF request.json THEN out
                             ELSE out \o print_report(fin.report)
                   /\ result' = fin.ret
                   /\ pc' = "done"
                   /\ UNCHANGED i
    /\ UNCHANGED <<request, hostVars, sockets, listVars, killVars, enum>>

\* The orders in which a HashMap's keys can come out
Perms(S) ==
    { o \in SeqsUpTo(S, Cardinality(S)) :
        Len(o) = Cardinality(S) /\ { o[k] : k \in 1..Len(o) } = S }

\* run_list: `for (port, sockets) in ports_map { for socket in sockets`, as
\* the sequence of sockets visited when the keys come out in `order`
RECURSIVE Iterate(_, _)
Iterate(map, order) ==
    IF order = <<>> THEN <<>>
    ELSE map[order[1]] \o Iterate(map, Tail(order))

\* Mutant of SeenKey: the listing is deduplicated by PID alone
SeenKey_PidOnly(port, socket) == <<0, socket.pid>>

\* run_list: the key of the seen set
SeenKey(port, socket) == <<port, socket.pid>>

\* run_list, loop body after the seen test: what one resolution does to
\* (entries, seen). disc is the socket's place in the order of discovery.
ListVisit(ents, seenk, port, socket, r) ==
    IF r.tag = "Ok"
    THEN [entries |-> Append(ents,
                        [port     |-> port,
                         protocol |-> socket.protocol,
                         pid      |-> socket.pid,
                         name     |-> r.val.name,
                         user     |-> r.val.user,
                         command  |-> FlattenCommand(r.val.name, r.val.command),
                         disc     |-> socket.disc]),
          seen |-> seenk \cup {SeenKey(port, socket)}, ret |-> None]
    ELSE [entries |-> ents, seen |-> seenk, ret |-> None]

\* Mutant of InsertByPort: an unstable sort, equal ports change places
RECURSIVE InsertByPort_Unstable(_, _)
InsertByPort_Unstable(sorted, e) ==
    IF sorted = <<>> THEN <<e>>
    ELSE IF sorted[Len(sorted)].port < e.port THEN Append(sorted, e)
    ELSE Append(InsertByPort_Unstable(SubSeq(sorted, 1, Len(sorted) - 1), e),
                sorted[Len(sorted)])

\* slice::sort_by_key(|e| e.port): a stable sort
RECURSIVE InsertByPort(_, _)
InsertByPort(sorted, e) ==
    IF sorted = <<>> THEN <<e>>
    ELSE IF sorted[Len(sorted)].port <= e.port THEN Append(sorted, e)
    ELSE Append(InsertByPort(SubSeq(sorted, 1, Len(sorted) - 1), e),
                sorted[Len(sorted)])

RECURSIVE SortByPort(_)
SortByPort(ents) ==
    IF ents = <<>> THEN <<>>
    ELSE InsertByPort(SortByPort(SubSeq(ents, 1, Len(ents) - 1)), ents[Len(ents)])

\* run_list up to the loop: enumeration, grouping, and the empty case
ListEnumerate ==
    /\ pc = "start"
    /\ request.mode = "list"
    /\ \E os \in EnumOutcomes(proto_flags(request.filter)) :
         LET r == get_listening_ports(os.got)
         IN  /\ enum' = [ok |-> os.ok, cause |-> os.cause]
             /\ IF r.tag = "Err"
                THEN /\ result' = r
                     /\ pc' = "done"
                     /\ UNCHANGED <<sockets, listing>>
                ELSE IF DOMAIN r.val = {}
                THEN /\ listing' = Some(SortByPort(entries))
                     /\ result' = Ok(0)
                     /\ pc' = "done"
                     /\ UNCHANGED sockets
                ELSE /\ \E order \in Perms(DOMAIN r.val) :
                           sockets' = Iterate(r.val, order)
                     /\ pc' = "list_loop"
                     /\ UNCHANGED <<listing, result>>
    /\ UNCHANGED <<request, hostVars, i, inspectVars, entries, seen, killVars,
                   report, visits, out>>

\* run_list: one iteration of the inner loop; the iteration that visits the
\* last socket goes on to sort and print the entries
ListStep ==
    /\ pc = "list_loop"
    /\ LET socket == sockets[i]
           port   == socket.port
           skip   == SeenKey(port, socket) \in seen
           r      == inspect(socket.pid, socket.protocol)
           v      == IF skip
                     THEN [entries |-> entries, seen |-> seen, ret |-> None]
                     ELSE ListVisit(entries, seen, port, socket, r)
       IN  /\ visits' = Append(visits, Visit(socket, ~skip))
           /\ seen' = v.seen
           /\ IF v.ret # None
              THEN /\ entries' = v.entries
                   /\ result' = v.ret
                   /\ pc' = "done"
                   /\ UNCHANGED <<i, listing>>
              ELSE IF i < Len(sockets)
              THEN /\ entries' = v.entries
                   /\ i' = i + 1
                   /\ UNCHANGED <<pc, listing, result>>
              ELSE /\ entries' = SortByPort(v.entries)
                   /\ listing' = Some(entries')
                   /\ result' = Ok(0)
                   /\ pc' = "done"
                   /\ UNCHANGED i
    /\ UNCHANGED <<request, hostVars, sockets, inspectVars, killVars, report, enum, out>>

\* Mutant of KillTarget: the last matching socket is taken
KillTarget_Last(socks) == socks[Len(socks)]

\* run_kill: the socket whose owner is the target
KillTarget(socks) == socks[1]

\* str::trim and str::eq_ignore_ascii_case on the answer
RECURSIVE TrimStart(_)
TrimStart(line) ==
    IF line # <<>> /\ line[1] \in Whitespace THEN TrimStart(Tail(line)) ELSE line

RECURSIVE TrimEnd(_)
TrimEnd(line) ==
    IF line # <<>> /\ line[Len(line)] \in Whitespace
    THEN TrimEnd(SubSeq(line, 1, Len(line) - 1)) ELSE line

Trim(line) == TrimEnd(TrimStart(line))

AsciiLower(c) ==
    CASE c = "Y" -> "y" [] c = "E" -> "e" [] c = "S" -> "s" [] c = "N" -> "n"
      [] OTHER -> c

EqIgnoreAsciiCase(a, b) ==
    /\ Len(a) = Len(b)
    /\ \A k \in 1..Len(a) : AsciiLower(a[k]) = AsciiLower(b[k])

\* Mutant of Confirms: any answer that starts with y is taken for a yes
Confirms_Prefix(line) ==
    /\ Trim(line) # <<>>
    /\ AsciiLower(Trim(line)[1]) = "y"

\* run_kill: `input.trim().eq_ignore_ascii_case("y")`
Confirms(line) == EqIgnoreAsciiCase(Trim(line), <<"y">>)

\* What read_line can give: a line (empty at end of input), or an error
StdinReads ==
    { [ok |-> TRUE, line |-> a] : a \in Answers } \cup { [ok |-> FALSE, line |-> <<>>] }

\* run_kill: the free report, whose protocol depends on the output format
KillFreeReport(port, filter, json) ==
    IF json THEN PortReport_free(port, ProtocolOf(filter))
    ELSE PortReport_free(port, "Both")

\* output.rs print_kill_success: "Sent <signal> to PID <pid>"
print_kill_success(pid, force) ==
    [kind   |-> "kill_success",
     signal |-> IF force THEN "SIGKILL" ELSE "SIGTERM",
     pid    |-> pid]

\* run_kill up to the resolution: enumeration, and the empty case
KillEnumerate ==
    /\ pc = "start"
    /\ request.mode = "kill"
    /\ \E os \in EnumOutcomes(proto_flags(request.filter)) :
         LET r == find_processes_by_port(request.port, os.got)
         IN  /\ enum' = [ok |-> os.ok, cause |-> os.cause]
             /\ IF r.tag = "Err"
                THEN /\ result' = r
                     /\ pc' = "done"
                     /\ UNCHANGED <<sockets, report>>
                ELSE IF r.val = <<>>
                THEN /\ report' = KillFreeReport(request.port, request.filter, request.json)
                     /\ result' = Ok(0)
                     /\ pc' = "done"
                     /\ UNCHANGED sockets
                ELSE /\ sockets' = r.val
                     /\ pc' = "kill_resolve"
                     /\ UNCHANGED <<report, result>>
    /\ UNCHANGED <<request, hostVars, i, inspectVars, listVars, killVars, visits, out>>

\* Mutant of KillResolveErr: the failed resolution is taken for a free port
KillResolveErr_Absorbed(r) == Ok(0)

\* run_kill: `proc::inspect(socket.pid, socket.protocol)?`: what a failed
\* resolution returns
KillResolveErr(r) == r

\* run_kill: the resolution of the target, then the prompt unless no_prompt
KillResolve ==
    /\ pc = "kill_resolve"
    /\ LET socket == KillTarget(sockets)
           r      == inspect(socket.pid, socket.protocol)
       IN  /\ visits' = Append(visits, Visit(socket, TRUE))
           /\ IF r.tag = "Err"
              THEN /\ result' = KillResolveErr(r)
                   /\ pc' = "done"
                   /\ UNCHANGED <<info, prompts, out>>
              ELSE /\ info' = r.val
                   /\ IF request.no_prompt
                      THEN /\ pc' = "kill_signal"
                           /\ UNCHANGED <<prompts, out>>
                      ELSE /\ prompts' = prompts + 1
                           /\ out' = Append(out, print_kill_prompt(r.val))
                           /\ pc' = "kill_confirm"
                   /\ UNCHANGED result
    /\ UNCHANGED <<request, hostVars, sockets, i, inspectVars, listVars, answer,
                   signals, report, enum>>

\* run_kill: the read of the answer
KillConfirm ==
    /\ pc = "kill_confirm"
    /\ \E rd \in StdinReads :
         IF ~rd.ok
         THEN /\ result' = Panic
              /\ pc' = "done"
              /\ UNCHANGED answer
         ELSE /\ answer' = Some(rd.line)
              /\ IF ~Confirms(rd.line)
                 THEN /\ result' = Err(Cancelled)
                      /\ pc' = "done"
                 ELSE /\ pc' = "kill_signal"
                      /\ UNCHANGED result
    /\ UNCHANGED <<request, hostVars, sockets, i, inspectVars, listVars, info,
                   prompts, signals, report, enum, visits, out>>

\* run_kill: `proc::kill_process(info.pid, force)?`, then the success message
KillSignal ==
    /\ pc = "kill_signal"
    /\ LET target == AsI32(info.pid)
       IN  \E errno \in KillOutcomes(target) :
             LET r == kill_process(info.pid, request.force, errno)
             IN  /\ signals' = Append(signals,
                                  [target |-> target,
                                   signal |-> SignalFor(request.force),
                                   errno  |-> errno,
                                   inst   |-> IF target \in live THEN gen[target] ELSE -1])
                 /\ out' = IF r.tag = "Ok"
                           THEN Append(out, print_kill_success(info.pid, request.force))
                           ELSE out
                 /\ result' = IF r.tag = "Ok" THEN Ok(0) ELSE r
                 /\ pc' = "done"
    /\ UNCHANGED <<request, hostVars, sockets, i, inspectVars, listVars, info,
                   answer, prompts, report, enum, visits>>

\* ------------------------------------------------------------- the host
\* The PID the invocation looks at in its next OS call (none when the loop
\* is about to skip a socket). The host's changes to different PIDs commute
\* with each other and with the program's steps on other PIDs, so a change
\* is taken when the program is about to look at its PID.
Watched ==
    CASE pc = "inspect_loop" ->
            IF sockets[i].pid \in seen_pids THEN {} ELSE {sockets[i].pid}
      [] pc = "list_loop" ->
            IF SeenKey(sockets[i].port, sockets[i]) \in seen THEN {}
            ELSE {sockets[i].pid}
      [] pc = "kill_resolve" -> {KillTarget(sockets).pid}
      [] pc \in {"kill_confirm", "kill_signal"} -> {AsI32(info.pid)} \cap Pids
      [] OTHER -> {}

\* The parents proc::inspect looks up in the same call, where the parent
\* fields of the record are read afterwards: run_list's PortEntry has none
\* and print_kill_prompt prints none
WatchedParents ==
    IF pc = "inspect_loop"
    THEN { ProcParent(p, gen[p]).val :
             p \in { q \in Watched : ProcParent(q, gen[q]) # None } }
    ELSE {}

\* A process exits while the invocation is between two OS calls.
ProcessExit ==
    /\ pc \notin {"start", "done"}
    /\ \E p \in (Watched \cup WatchedParents) \cap live : live' = live \ {p}
    /\ UNCHANGED <<request, gen, pc, sockets, i, inspectVars, listVars, killVars,
                   report, result, enum, visits, out>>

\* How often the host has reused a PID so far
RECURSIVE Reuses(_)
Reuses(S) ==
    IF S = {} THEN 0
    ELSE LET p == CHOOSE q \in S : TRUE IN gen[p] + Reuses(S \ {p})

\* The host hands a freed PID to a new process. The model follows this
\* where the program goes on to act on the PID it resolved, in the kill flow;
\* in the inspect and list flows a PID that left the table stays out of it.
ProcessSpawn ==
    /\ pc \notin {"start", "done"}
    /\ request.mode = "kill"
    /\ Reuses(Pids) < MaxReuse
    /\ \E p \in Watched \ live :
         /\ live' = live \cup {p}
         /\ gen' = [gen EXCEPT ![p] = gen[p] + 1]
    /\ UNCHANGED <<request, pc, sockets, i, inspectVars, listVars, killVars,
                   report, result, enum, visits, out>>

Next ==
    \/ InspectEnumerate
    \/ InspectStep
    \/ ListEnumerate
    \/ ListStep
    \/ KillEnumerate
    \/ KillResolve
    \/ KillConfirm
    \/ KillSignal
    \/ ProcessExit
    \/ ProcessSpawn

Spec == Init /\ [][Next]_vars

\* ------------------------------------------- the enumerator on one entry
\* get_listening_sockets' loop body on one entry of the OS's answer: the
\* entry (in enum) is extracted and, if it gives a BoundSocket, pushed.
InitExtract ==
    /\ request \in { r \in Requests : r.mode = "list" }
    /\ enum \in { Some(e) : e \in OsSocketInfos(proto_flags(request.filter)) }
    /\ pc = "extract"
    /\ live = Pids
    /\ gen = [p \in Pids |-> 0]
    /\ sockets = <<>>
    /\ i = 1
    /\ processes = <<>>
    /\ seen_pids = {}
    /\ entries = <<>>
    /\ seen = {}
    /\ info = None
    /\ answer = None
    /\ report = None
    /\ listing = None
    /\ result = None
    /\ visits = <<>>
    /\ prompts = 0
    /\ signals = <<>>
    /\ out = <<>>

Extract ==
    /\ pc = "extract"
    /\ LET bound == extract_listening_socket(enum.val)
       IN  sockets' = IF bound = None THEN sockets ELSE Append(sockets, bound)
    /\ pc' = "extracted"
    /\ UNCHANGED <<request, hostVars, i, inspectVars, listVars, killVars, report,
                   result, enum, visits, out>>

NextExtract == Extract

SpecExtract == InitExtract /\ [][NextExtract]_vars

\* ------------------------------------------------- kill_process on any u32
\* kill_process called with any 32-bit PID, given by its 16-bit halves
\* (info holds the argument), and any answer of kill(2).
U32Halves == {0, 1, 2, 32767, 32768, 65534, 65535}

InitKillCall ==
    /\ request \in { r \in Requests :
                       /\ r.mode = "kill"
                       /\ r.port = 1
                       /\ r.filter = "Both"
                       /\ ~r.json
                       /\ r.no_prompt }
    /\ info \in { [pid |-> [hi |-> h, lo |-> l]] : h \in U32Halves, l \in U32Halves }
    /\ pc = "call"
    /\ live = Pids
    /\ gen = [p \in Pids |-> 0]
    /\ sockets = <<>>
    /\ i = 1
    /\ processes = <<>>
    /\ seen_pids = {}
    /\ entries = <<>>
    /\ seen = {}
    /\ answer = None
    /\ report = None
    /\ listing = None
    /\ result = None
    /\ enum = None
    /\ visits = <<>>
    /\ prompts = 0
    /\ signals = <<>>
    /\ out = <<>>

KillCall ==
    /\ pc = "call"
    /\ LET target == CastI32(info.pid.hi, info.pid.lo)
       IN  \E errno \in {"OK", "EPERM", "ESRCH"} :
             /\ signals' = Append(signals,
                              [target |-> target,
                               signal |-> SignalFor(request.force),
                               errno  |-> errno,
                               scope  |-> KillScope(target)])
             /\ result' = kill_process(info.pid, request.force, errno)
    /\ pc' = "called"
    /\ UNCHANGED <<request, hostVars, sockets, i, inspectVars, listVars, info,
                   answer, prompts, report, enum, visits, out>>

NextKillCall == KillCall

SpecKillCall == InitKillCall /\ [][NextKillCall]_vars

\* ================================================================ claims
PidsOf(seq) == [k \in 1..Len(seq) |-> seq[k].pid]

\* The visits for which proc::inspect was called
Calls == SelectSeq(visits, LAMBDA v : v.called)

\* C1: in the kill flow, when the PID of the selected (first) socket is not
\* in the process table at resolution time, the invocation ends with
\* ProcessNotFound for that PID and exit status 3; no prompt was shown, no
\* signal was sent and no report (Free or other) was printed.
C1_KillResolveFailureSurfaces ==
    (request.mode = "kill" /\ visits # <<>> /\ ~visits[1].ok)
        => /\ pc = "done"
           /\ result = Err(ProcessNotFound(sockets[1].pid))
           /\ ExitStatus(result) = 3
           /\ prompts = 0
           /\ answer = None
           /\ signals = <<>>
           /\ report = None

C1_Witness ==
    /\ request.mode = "kill"
    /\ Len(visits) = 1
    /\ ~visits[1].ok
    /\ pc = "done"

\* C2: in the inspect and list flows a failed resolution is never an error:
\* the only error either flow returns is the enumeration's NetworkError, the
\* loop goes on after a failure at any position, and once the flow is done
\* after a successful enumeration it has returned Ok and printed a report or
\* listing that holds exactly the processes whose resolution succeeded.
C2_ResolveFailureAbsorbed ==
    request.mode \in {"inspect", "list"}
        => /\ (result # None /\ result.tag # "Ok")
                => (result = Err(NetworkError(enum.cause)) /\ ~enum.ok)
           /\ pc \in {"inspect_loop", "list_loop"} => i \in 1..Len(sockets)
           /\ (pc = "done" /\ enum.ok)
                => /\ result.tag = "Ok"
                   /\ Len(visits) = Len(sockets)
                   /\ request.mode = "inspect"
                        => /\ report # None
                           /\ PidsOf(report.processes)
                                = PidsOf(SelectSeq(Calls, LAMBDA v : v.ok))
                   /\ request.mode = "list"
                        => /\ listing # None
                           /\ Len(listing.val) = Len(SelectSeq(Calls, LAMBDA v : v.ok))
                           /\ { <<listing.val[k].port, listing.val[k].pid>> :
                                  k \in 1..Len(listing.val) }
                                = { <<Calls[k].port, Calls[k].pid>> :
                                      k \in { j \in 1..Len(Calls) : Calls[j].ok } }

\* an inspect whose first resolution failed and whose second succeeded
C2_Witness ==
    /\ request.mode = "inspect"
    /\ pc = "done"
    /\ Len(Calls) = 2
    /\ ~Calls[1].ok
    /\ Calls[2].ok
    /\ result = Ok(1)

\* An accepted 'y': the answer is one y or Y with nothing but whitespace
\* around it.
IsYes(line) ==
    \E k \in 1..Len(line) :
        /\ line[k] \in {"y", "Y"}
        /\ \A j \in 1..Len(line) : j # k => line[j] \in Whitespace

\* C3: in run_kill, once an answer other than an accepted 'y' has been read,
\* kill_process has not been and is never called, and the invocation has
\* ended with Cancelled, exit status 4.
C3_DeclineCancels ==
    (answer # None /\ ~IsYes(answer.val))
        => /\ pc = "done"
           /\ signals = <<>>
           /\ result = Err(Cancelled)
           /\ ExitStatus(result) = 4

C3_Witness ==
    /\ answer = Some(<<"y", "e", "s", "\n">>)
    /\ ~request.no_prompt
    /\ result = Err(Cancelled)

\* C4: an invocation calls kill(2) at most once; only a kill invocation calls
\* it, only after its enumeration found a socket on the port, and the target
\* is the PID of the first matching socket, which is the PID that was
\* resolved (and shown) before.
C4_OneSignalToFirstOwner ==
    /\ Len(signals) <= 1
    /\ signals # <<>>
        => /\ request.mode = "kill"
           /\ sockets # <<>>
           /\ \A k \in 1..Len(sockets) : sockets[k].port = request.port
           /\ signals[1].target = sockets[1].pid
           /\ Len(Calls) = 1
           /\ Calls[1].pid = signals[1].target
           /\ info.pid = signals[1].target
    /\ (pc = "done" /\ sockets = <<>>) => signals = <<>>

\* a signal was sent while another process owned a later socket on the port
C4_Witness ==
    /\ Len(signals) = 1
    /\ signals[1].errno = "OK"
    /\ Len(sockets) = 2
    /\ sockets[2].pid # sockets[1].pid

\* C5: no PID appears in two ProcessRecords, in run_inspect's processes at
\* any time and in the report it prints.
C5_InspectOneRecordPerPid ==
    /\ \A a, b \in 1..Len(processes) : processes[a].pid = processes[b].pid => a = b
    /\ (request.mode = "inspect" /\ report # None)
        => \A a, b \in 1..Len(report.processes) :
              report.processes[a].pid = report.processes[b].pid => a = b

\* two sockets of one PID on the port, one record in the report
C5_Witness ==
    /\ request.mode = "inspect"
    /\ report # None
    /\ Len(sockets) = 2
    /\ sockets[1].pid = sockets[2].pid
    /\ Len(report.processes) = 1

\* C6: every PortReport printed has status Free exactly when it has no
\* process; an inspect whose enumeration succeeded and whose resolutions all
\* failed (or that found no socket) prints a Free report without processes,
\* and an InUse report holds at least one ProcessRecord.
C6_FreeIffNoProcess ==
    /\ report # None
        => /\ report.status = "Free" <=> report.processes = <<>>
           /\ report.status = "InUse" => Len(report.processes) >= 1
    /\ (request.mode = "inspect" /\ pc = "done" /\ enum.ok
          /\ \A k \in 1..Len(Calls) : ~Calls[k].ok)
        => /\ report # None
           /\ report.status = "Free"
           /\ report.processes = <<>>

\* sockets were found on the port and every resolution failed
C6_Witness ==
    /\ request.mode = "inspect"
    /\ pc = "done"
    /\ Len(sockets) = 2
    /\ Len(Calls) = 2
    /\ \A k \in 1..Len(Calls) : ~Calls[k].ok
    /\ report.status = "Free"

\* C7: the listing has at most one row per (port, PID), and each PID has
\* exactly one row for every port on which a socket of its was reached while
\* the PID was in the process table.
C7_ListOneRowPerPortPid ==
    listing # None
        => /\ \A a, b \in 1..Len(listing.val) :
                (listing.val[a].port = listing.val[b].port
                    /\ listing.val[a].pid = listing.val[b].pid) => a = b
           /\ \A p \in Pids :
                Cardinality({ k \in 1..Len(listing.val) : listing.val[k].pid = p })
                  = Cardinality({ visits[k].port :
                        k \in { j \in 1..Len(visits) : visits[j].pid = p /\ visits[j].ok } })

\* one PID on two ports, two rows
C7_Witness ==
    /\ listing # None
    /\ Len(listing.val) = 2
    /\ listing.val[1].pid = listing.val[2].pid
    /\ listing.val[1].port # listing.val[2].port

\* C8: the listing is in non-decreasing order of port, and rows of the same
\* port are in the order in which the enumerator discovered their sockets.
C8_ListingSortedStable ==
    listing # None
        => \A a, b \in 1..Len(listing.val) :
              a < b => /\ listing.val[a].port <= listing.val[b].port
                       /\ listing.val[a].port = listing.val[b].port
                            => listing.val[a].disc < listing.val[b].disc

\* the loop visited the larger port first, and both rows were printed
C8_Witness ==
    /\ listing # None
    /\ Len(listing.val) = 2
    /\ Len(sockets) = 2
    /\ sockets[1].port > sockets[2].port
    /\ listing.val[1].port < listing.val[2].port

\* C9: when the OS socket enumeration fails, the invocation (inspect, list
\* or kill) is over at once with NetworkError carrying the OS's cause: no
\* socket was reached, no process resolved, no report or listing printed, no
\* prompt shown, no answer read and no signal sent.
C9_EnumerationFailureFatal ==
    (enum # None /\ ~enum.ok)
        => /\ pc = "done"
           /\ result = Err(NetworkError(enum.cause))
           /\ enum.cause \in EnumErrors
           /\ sockets = <<>>
           /\ visits = <<>>
           /\ report = None
           /\ listing = None
           /\ prompts = 0
           /\ answer = None
           /\ signals = <<>>

C9_Witness ==
    /\ request.mode = "kill"
    /\ enum # None
    /\ ~enum.ok
    /\ result.tag = "Err"

\* C10: a kill(2) call that fails ends the invocation with an error: EPERM
\* with PermissionDenied and its hint naming the PID, any other errno with
\* KillFailed carrying the PID that was resolved and the errno; kill(2) is
\* not called a second time.
C10_KillFailureClassified ==
    /\ Len(signals) <= 1
    /\ \A k \in 1..Len(signals) :
          /\ signals[k].errno # "OK"
                => /\ pc = "done"
                   /\ result.tag = "Err"
          /\ signals[k].errno = "EPERM"
                => result = Err(PermissionDenied(
                      <<"Cannot kill PID ", sockets[1].pid,
                        ". Try running with elevated permissions.">>))
          /\ signals[k].errno \notin {"OK", "EPERM"}
                => /\ result.err.tag = "KillFailed"
                   /\ result.err.pid = sockets[1].pid
                   /\ result.err.pid = Calls[1].pid
                   /\ result.err.reason = signals[k].errno

\* the target was resolved, then exited before the signal: ESRCH
C10_Witness ==
    /\ Len(signals) = 1
    /\ Calls[1].ok
    /\ signals[1].errno = "ESRCH"
    /\ result.tag = "Err"

\* The messages of one kind among those printed
Printed(kind) == SelectSeq(out, LAMBDA m : m.kind = kind)

\* C11: every kill(2) call asks for SIGTERM when force is false and for
\* SIGKILL when force is true; a success message is printed exactly when the
\* call succeeded, and it names the signal that was asked for and the PID it
\* was asked for.
C11_SignalFollowsForce ==
    /\ \A k \in 1..Len(signals) :
          /\ ~request.force => signals[k].signal = "SIGTERM"
          /\ request.force => signals[k].signal = "SIGKILL"
    /\ Len(Printed("kill_success")) <= 1
    /\ Printed("kill_success") # <<>>
          <=> (signals # <<>> /\ signals[1].errno = "OK")
    /\ \A k \in 1..Len(Printed("kill_success")) :
          /\ Printed("kill_success")[k].signal = signals[1].signal
          /\ Printed("kill_success")[k].pid = signals[1].target

\* a forced kill went through and its message was printed
C11_Witness ==
    /\ request.force
    /\ Len(signals) = 1
    /\ signals[1].signal = "SIGKILL"
    /\ Printed("kill_success") = <<[kind |-> "kill_success", signal |-> "SIGKILL",
                                    pid |-> sockets[1].pid]>>

\* The outcome classes of a finished invocation, told from what it did.
OutcomeClasses ==
    {"in_use", "success", "free_port", "permission_denied",
     "process_not_found", "cancelled"}

Outcome ==
    IF report # None /\ report.status = "InUse" THEN "in_use"
    ELSE IF report # None /\ report.status = "Free" THEN "free_port"
    ELSE IF listing # None THEN "success"
    ELSE IF signals # <<>> /\ signals[1].errno = "OK" THEN "success"
    ELSE IF signals # <<>> /\ signals[1].errno = "EPERM" THEN "permission_denied"
    ELSE IF request.mode = "kill" /\ visits # <<>> /\ ~visits[1].ok
         THEN "process_not_found"
    ELSE IF answer # None /\ ~IsYes(answer.val) THEN "cancelled"
    ELSE "other"

\* The class an exit status stands for when success/in-use, free-port,
\* permission-denied, process-not-found and cancelled have pairwise distinct
\* statuses: 0 and 1 are what run_inspect returns for a free port and for a
\* port in use.
ClassOfStatus(st) ==
    CASE st = InspectReport(1, "Tcp", <<>>).ret.code -> {"free_port"}
      [] st = InspectReport(1, "Tcp", <<1>>).ret.code -> {"in_use", "success"}
      [] st = ExitStatus(Err(PermissionDenied(<<>>))) -> {"permission_denied"}
      [] st = ExitStatus(Err(ProcessNotFound(1))) -> {"process_not_found"}
      [] st = ExitStatus(Err(Cancelled)) -> {"cancelled"}
      [] OTHER -> {}

\* C12 as claimed: the exit status of a finished invocation tells its outcome
\* class among success/in-use, free-port, permission-denied,
\* process-not-found and cancelled, a kill whose signal was sent counting as
\* success.
C12_Original_StatusTellsClass ==
    (pc = "done" /\ Outcome \in OutcomeClasses)
        => Outcome \in ClassOfStatus(ExitStatus(result))

\* C12 as amended: in-use exits with 1, free-port with 0, permission-denied
\* with 2, process-not-found with 3 and cancelled with 4, five pairwise
\* distinct statuses; a kill whose signal was sent and a listing exit with
\* 0, the status of a free port.
C12_ExitStatusByOutcome ==
    pc = "done"
        => /\ Outcome = "in_use" => ExitStatus(result) = 1
           /\ Outcome = "free_port" => ExitStatus(result) = 0
           /\ Outcome = "success" => ExitStatus(result) = 0
           /\ Outcome = "permission_denied" => ExitStatus(result) = 2
           /\ Outcome = "process_not_found" => ExitStatus(result) = 3
           /\ Outcome = "cancelled" => ExitStatus(result) = 4

\* a kill whose signal was sent has ended with the status of a free port
C12_Witness ==
    /\ pc = "done"
    /\ request.mode = "kill"
    /\ Outcome = "success"
    /\ ExitStatus(result) = 0

\* C13: the enumerator outputs a BoundSocket for an entry exactly when the
\* entry has an associated PID and is a UDP socket or a TCP socket in LISTEN
\* state; the BoundSocket has the first associated PID, the entry's local
\* port and the entry's protocol.
C13_ExtractIffListening ==
    pc = "extracted"
        => LET e    == enum.val
               keep == /\ Len(e.associated_pids) >= 1
                       /\ \/ e.proto = "Udp"
                          \/ e.proto = "Tcp" /\ e.state = "Listen"
           IN  /\ sockets # <<>> <=> keep
               /\ keep => /\ Len(sockets) = 1
                           /\ sockets[1].pid = e.associated_pids[1]
                           /\ sockets[1].port = e.local_port
                           /\ sockets[1].protocol = e.proto

\* a listening TCP socket with two owners gave a BoundSocket of the first
C13_Witness ==
    /\ pc = "extracted"
    /\ enum.val.proto = "Tcp"
    /\ enum.val.state = "Listen"
    /\ Len(enum.val.associated_pids) = 2
    /\ enum.val.associated_pids[1] # enum.val.associated_pids[2]
    /\ Len(sockets) = 1
    /\ sockets[1].pid = enum.val.associated_pids[1]

\* The ProcessInfo records proc::inspect has returned, in order, and the
\* calls that found their PID in the process table
Records == processes \o (IF info = None THEN <<>> ELSE <<info>>)

FoundCalls == SelectSeq(Calls, LAMBDA v : v.ok)

\* C14: in the inspect and kill flows every call of proc::inspect that finds
\* its PID returns a record, whether the parent can be looked up or not; the
\* record reports the parent PID the process table links, a record without
\* parent PID has no parent name, and a record whose parent was gone at the
\* lookup has the parent PID and no parent name.
C14_ParentBestEffort ==
    request.mode \in {"inspect", "kill"}
        => /\ Len(Records) = Len(FoundCalls)
           /\ \A k \in 1..Len(Records) :
                LET r == Records[k]
                    v == FoundCalls[k]
                IN  /\ r.pid = v.pid
                    /\ r.parent_pid = None => r.parent_name = None
                    /\ r.parent_pid = ProcParent(r.pid, r.inst)
                    /\ (r.parent_pid # None /\ ~v.parent_live)
                          => r.parent_name = None
                    /\ (r.parent_pid # None /\ v.parent_live)
                          => r.parent_name # None

\* an inspect reported a process whose parent had exited
C14_Witness ==
    /\ request.mode = "inspect"
    /\ report # None
    /\ \E k \in 1..Len(report.processes) :
          /\ report.processes[k].parent_pid = Some(1)
          /\ report.processes[k].parent_name = None

\* C15: the protocol field of every PortReport built is the protocol of the
\* query's filter (Tcp for TcpOnly, Udp for UdpOnly, Both for Both), in the
\* inspect flow and in the kill flow's free-port report, for both output
\* formats.
C15_ReportProtocolIsFilter ==
    report # None => report.protocol = ProtocolOf(request.filter)

\* The arguments joined by single spaces, built from the left
RECURSIVE SpaceJoined(_)
SpaceJoined(words) ==
    IF Len(words) = 1 THEN words[1]
    ELSE SpaceJoined(SubSeq(words, 1, Len(words) - 1)) \o " " \o words[Len(words)]

\* The command to display for a process: its name when it has no arguments,
\* else its arguments joined by single spaces
DisplayedCommand(name, args) ==
    IF args = <<>> THEN name ELSE SpaceJoined(args)

\* C16: the command shown is the same function of the process at every
\* place that flattens it: each row of the listing, each process of an
\* in-use report printed for people and the kill prompt show the process
\* name when the argument sequence is empty and else the arguments joined by
\* single spaces.
C16_FlattenedCommandAgrees ==
    /\ listing # None
         => \A k \in 1..Len(listing.val) :
               listing.val[k].command
                 = DisplayedCommand(ProcName(listing.val[k].pid, gen[listing.val[k].pid]),
                                    ProcCmd(listing.val[k].pid, gen[listing.val[k].pid]))
    /\ (request.mode = "inspect" /\ report # None /\ ~request.json)
         => /\ Len(Printed("process_details")) = Len(report.processes)
            /\ \A k \in 1..Len(report.processes) :
                  Printed("process_details")[k].cmd
                    = DisplayedCommand(report.processes[k].name,
                                       report.processes[k].command)
    /\ Len(Printed("kill_prompt")) = prompts
    /\ \A k \in 1..Len(Printed("kill_prompt")) :
          Printed("kill_prompt")[k].cmd = DisplayedCommand(info.name, info.command)

\* the prompt showed the name of a process without arguments
C16_Witness ==
    /\ Len(Printed("kill_prompt")) = 1
    /\ info.command = <<>>
    /\ Printed("kill_prompt")[1].cmd = "sh"

\* an in-use report showed the joined arguments of a process
C16_WitnessJoined ==
    /\ Len(Printed("process_details")) >= 1
    /\ Printed("process_details")[1].cmd = "nginx -g"

\* C17 as claimed: during an inspect no PID is passed to proc::inspect twice,
\* whatever the outcome of its first resolution.
C17_Original_EachPidOnce ==
    request.mode = "inspect"
        => \A a, b \in 1..Len(Calls) : Calls[a].pid = Calls[b].pid => a = b

\* C17 as amended: during an inspect a socket's PID is passed to
\* proc::inspect exactly when no earlier socket's resolution of that PID
\* succeeded: a PID is resolved successfully at most once and is not
\* resolved again afterwards, and a PID whose resolution failed is resolved
\* again for the next socket it owns.
C17_ResolvedOncePerSuccess ==
    request.mode = "inspect"
        => /\ \A k \in 1..Len(visits) :
                 visits[k].called
                   <=> ~\E j \in 1..(k - 1) :
                          /\ visits[j].pid = visits[k].pid
                          /\ visits[j].called
                          /\ visits[j].ok
           /\ \A a, b \in 1..Len(Calls) :
                 (a < b /\ Calls[a].pid = Calls[b].pid) => ~Calls[a].ok

\* two sockets of one PID: the first resolution failed, the second was made
C17_Witness ==
    /\ request.mode = "inspect"
    /\ Len(Calls) = 2
    /\ Calls[1].pid = Calls[2].pid
    /\ ~Calls[1].ok

\* The process that held a PID when the sockets were enumerated: PIDs are
\* reused only after the enumeration, so it is the PID's first holder.
InstAtEnumeration(pid) == 0

\* C18: in the kill flow the process that receives the signal is the
\* process that was resolved and shown for confirmation, and that process is
\* the one that owned the socket at enumeration, whatever processes exit and
\* whatever PIDs are reused in between.
C18_SignalReachesResolvedProcess ==
    /\ info # None => info.inst = InstAtEnumeration(info.pid)
    /\ \A k \in 1..Len(signals) :
          signals[k].errno = "OK"
              => /\ signals[k].target = info.pid
                 /\ signals[k].inst = info.inst
                 /\ signals[k].inst = InstAtEnumeration(sockets[1].pid)

\* C19: for every 32-bit unsigned pid, the target kill_process hands to
\* kill(2) is positive and numerically equal to pid (its 16-bit halves are
\* pid's), so it denotes the single process with that PID and never a
\* process group, the caller's own group or every process.
C19_KillTargetsThePid ==
    pc = "called"
        => /\ signals[1].target > 0
           /\ signals[1].target \div 65536 = info.pid.hi
           /\ signals[1].target % 65536 = info.pid.lo
           /\ signals[1].scope = "process"

====
